---- MODULE Spec2Model ----
(***************************************************************************)
(* Roblox AI Texture Painter: the application state coordinator (App), the *)
(* generation pipeline (services/gemini) and the annotation store.         *)
(*                                                                         *)
(* Text is a sequence of one-character strings, so that String.trim is     *)
(* computed.  An image handle is a data URI, the pair <<prefix, payload>>  *)
(* that "prefix,payload" splits into; null is NoImage.                     *)
(***************************************************************************)
EXTENDS Integers, Sequences, FiniteSets, Bags, TLC

VARIABLES
    uvImage,      \* App: uvImage, a data URI or NoImage
    annotations,  \* App: annotations, a sequence of Annotation records
    stylePrompt,  \* App: stylePrompt, Text
    editPrompt,   \* App: editPrompt, Text
    isDetecting,  \* App: isDetecting
    genState,     \* App: genState, [isLoading, resultImage, error]
    reads,        \* the bag of FileReader.readAsDataURL operations not yet loaded
    calls,        \* the bag of service calls awaiting their response
    now,          \* the wall clock Date.now() reads
    tempLabel,    \* CanvasEditor: tempLabel, Text
    pendingClick, \* CanvasEditor: pendingClick, the pair <<x, y>> or NoPending
    draggingId    \* CanvasEditor: draggingId, an annotation id or NoDrag

vars == <<uvImage, annotations, stylePrompt, editPrompt, isDetecting,
          genState, reads, calls, now, tempLabel, pendingClick, draggingId>>

\* The state of the App coordinator and of the CanvasEditor component.
app == <<uvImage, stylePrompt, editPrompt, isDetecting, genState, reads, calls>>

canvas == <<tempLabel, pendingClick, draggingId>>

-----------------------------------------------------------------------------
(* Bounds *)

\* The file reads and service calls outstanding at once.
MaxPending == 2

\* The last value of the wall clock.
MaxClock == 1

\* The annotations the store holds when a manual commit is still taken.
MaxAnnotations == 2

-----------------------------------------------------------------------------
(* Values *)

\* null, of uvImage and resultImage
NoImage == <<>>

\* null, of error
NoError == "null"

\* undefined, of a label: no Text, whose elements are single characters
Undefined == <<"undefined">>

\* pendingClick null and draggingId null
NoPending == <<>>

NoDrag == <<>>

DataUri(mime, data) == <<mime, data>>

\* base64.split(',')[1]
Split1(uri) == uri[2]

PngUri(data) == DataUri("data:image/png;base64", data)

\* What FileReader.readAsDataURL yields for the file the user picks.
Files == {DataUri("data:image/png;base64", "UV1")}

Whitespace == {" ", "\t", "\n"}

\* reads and calls together
Pending == BagCardinality(reads) + BagCardinality(calls)

RECURSIVE TrimStart(_)
TrimStart(t) ==
    IF t # <<>> /\ Head(t) \in Whitespace THEN TrimStart(Tail(t)) ELSE t

RECURSIVE TrimEnd(_)
TrimEnd(t) ==
    IF t # <<>> /\ t[Len(t)] \in Whitespace
    THEN TrimEnd(SubSeq(t, 1, Len(t) - 1))
    ELSE t

\* String.prototype.trim
Trim(t) == TrimEnd(TrimStart(t))

\* !text.trim()
IsBlank(t) == Trim(t) = <<>>

\* What the user types into the style field and into the edit field.
StyleInputs == {<<>>, <<" ", "\t">>, <<" ", "n", "e", "o", "n">>}

EditInputs == {<<>>, <<"r", "e", "d", " ">>}

InitialGenState == [isLoading |-> FALSE, resultImage |-> NoImage, error |-> NoError]

-----------------------------------------------------------------------------
(* The external service's answers *)

\* An element of the JSON array the detection model answers with.
Item(isNull, label, x, y) == [isNull |-> isNull, label |-> label, x |-> x, y |-> y]

FaceItem == Item(FALSE, <<"F", "a", "c", "e">>, 80, 20)

TorsoItem == Item(FALSE, <<"T", "o", "r", "s", "o">>, 50, 50)

\* {"x": 50, "y": 50}: an object without the required label
NoLabelItem == Item(FALSE, Undefined, 50, 50)

\* null
NullItem == Item(TRUE, Undefined, 0, 0)

\* {"label": "Arm", "x": 150, "y": -10}: numbers that are no percentages
FarItem == Item(FALSE, <<"A", "r", "m">>, 150, -10)

DetectOut(kind, items) == [kind |-> kind, items |-> items]

\* What ai.models.generateContent can do for detectUVParts: reject, answer
\* without text, answer text that is no JSON, JSON that is no array, or an array.
DetectOutcomes ==
    {DetectOut(k, <<>>) : k \in {"throw", "noText", "badJson", "notArray"}}
    \cup {DetectOut("array", a) :
            a \in {<<>>, <<FaceItem>>, <<FaceItem, TorsoItem>>,
                   <<NoLabelItem>>, <<FaceItem, NullItem>>, <<FarItem>>}}

\* The answer is the schema's: an array of {label, x, y}.
WellFormed(out) ==
    /\ out.kind = "array"
    /\ \A i \in 1..Len(out.items) :
          ~out.items[i].isNull /\ out.items[i].label # Undefined

TextPart == [inlineData |-> FALSE, data |-> ""]

ImgPart(d) == [inlineData |-> TRUE, data |-> d]

ImageOut(kind, msg, parts) == [kind |-> kind, msg |-> msg, parts |-> parts]

\* What ai.models.generateContent can do for generateTexture and editTexture:
\* reject with an error (its message possibly empty), or answer with parts.
ImageOutcomes ==
    {ImageOut("raise", m, <<>>) : m \in {"", "quota exceeded"}}
    \cup {ImageOut("response", "", p) :
            p \in {<<>>, <<TextPart>>, <<TextPart, ImgPart("P1")>>,
                   <<ImgPart(""), ImgPart("P2"), ImgPart("P1")>>}}

\* The nondecreasing sequences of n clock readings from the current time on.
ClockReads(n) ==
    {ts \in [1..n -> now..MaxClock] : \A i \in 1..n : \A j \in i..n : ts[i] <= ts[j]}

-----------------------------------------------------------------------------
(* services/gemini *)

\* a || b on strings
OrElse(a, b) == IF a = "" THEN b ELSE a

Ok(value) == [ok |-> TRUE, value |-> value, msg |-> ""]

Fail(msg) == [ok |-> FALSE, value |-> NoImage, msg |-> msg]

\* parsed.map((item, index) => ({id: `auto-${Date.now()}-${index}`, ...}))
MapItems(items, ts) ==
    [i \in 1..Len(items) |->
        [id |-> <<"auto", ts[i], i - 1>>, label |-> items[i].label,
         x |-> items[i].x, y |-> items[i].y]]

\* detectUVParts: the annotations it resolves to.  Everything thrown inside
\* the try (the request, JSON.parse, parsed.map on a non-array, item.label
\* on null) is caught and answered with [].
DetectUVParts(out, ts) ==
    IF out.kind = "array" /\ \A i \in 1..Len(out.items) : ~out.items[i].isNull
    THEN MapItems(out.items, ts)
    ELSE <<>>

\* The number of Date.now() readings detectUVParts takes.
DetectReads(out) == IF out.kind = "array" THEN Len(out.items) ELSE 0

\* The loop that keeps the last part bearing image data instead of the first.
RECURSIVE FirstImage_TakesLast(_)
FirstImage_TakesLast(parts) ==
    IF parts = <<>> THEN ""
    ELSE IF parts[Len(parts)].inlineData /\ parts[Len(parts)].data # ""
    THEN parts[Len(parts)].data
    ELSE FirstImage_TakesLast(SubSeq(parts, 1, Len(parts) - 1))

\* for (const part of parts) if (part.inlineData && part.inlineData.data) return ...
RECURSIVE FirstImage(_)
FirstImage(parts) ==
    IF parts = <<>> THEN ""
    ELSE IF Head(parts).inlineData /\ Head(parts).data # "" THEN Head(parts).data
    ELSE FirstImage(Tail(parts))

ImageCall_AlwaysGeneric(out, noImageMsg, fallbackMsg) ==
    IF out.kind = "raise" THEN Fail(fallbackMsg)
    ELSE IF FirstImage(out.parts) # "" THEN Ok(PngUri(FirstImage(out.parts)))
    ELSE Fail(fallbackMsg)

\* The try/catch of generateTexture and editTexture around the request.
ImageCall(out, noImageMsg, fallbackMsg) ==
    IF out.kind = "raise" THEN Fail(OrElse(out.msg, fallbackMsg))
    ELSE IF FirstImage(out.parts) # "" THEN Ok(PngUri(FirstImage(out.parts)))
    ELSE Fail(OrElse(noImageMsg, fallbackMsg))

TypeErrorMsg == "Cannot read properties of undefined (reading 'toLowerCase')"

\* generateTexture builds its prompt before the try: ann.label.toLowerCase()
\* throws a TypeError on an annotation without a label, and no request is sent.
PromptThrows(anns) == \E i \in 1..Len(anns) : anns[i].label = Undefined

\* String.toLowerCase on the letters that occur; a letter outside the Latin
\* alphabet is written as its code point.
LowerCase ==
    [c \in {"A", "D", "E", "F", "H", "O", "R", "T"} |->
        CASE c = "A" -> "a" [] c = "D" -> "d" [] c = "E" -> "e" [] c = "F" -> "f"
          [] c = "H" -> "h" [] c = "O" -> "o" [] c = "R" -> "r" [] c = "T" -> "t"]
    @@ ("U+041B" :> "U+043B") @@ ("U+0418" :> "U+0438")
    @@ ("U+0426" :> "U+0446") @@ ("U+041E" :> "U+043E")

ToLowerCase(text) ==
    [i \in 1..Len(text) |->
        IF text[i] \in DOMAIN LowerCase THEN LowerCase[text[i]] ELSE text[i]]

StartsWith(text, word) ==
    Len(text) >= Len(word) /\ SubSeq(text, 1, Len(word)) = word

Includes_AtStartOnly(text, word) == StartsWith(text, word)

RECURSIVE Includes(_, _)
\* String.includes
Includes(text, word) ==
    IF Len(text) < Len(word) THEN FALSE
    ELSE StartsWith(text, word) \/ Includes(Tail(text), word)

\* 'face', 'head', and the two Russian words for them
FaceWords ==
    {<<"f", "a", "c", "e">>, <<"h", "e", "a", "d">>,
     <<"U+043B", "U+0438", "U+0446", "U+043E">>,
     <<"U+0433", "U+043E", "U+043B", "U+043E", "U+0432", "U+0430">>}

\* Math.round; the coordinates of the model are whole numbers
MathRound(v) == v

\* `- At ${Math.round(ann.x)}% x, ${Math.round(ann.y)}% y: "${ann.label}".\n`
Directive(ann) == [x |-> MathRound(ann.x), y |-> MathRound(ann.y), label |-> ann.label]

\* generateTexture's annotationText: its directive lines, after the heading
\* when there are any.
AnnotationText(anns) == [i \in 1..Len(anns) |-> Directive(anns[i])]

\* generateTexture's faceDefined after the forEach
FaceDefined(anns) ==
    \E i \in 1..Len(anns) :
        LET labelLower == ToLowerCase(anns[i].label) IN
        \E w \in FaceWords : Includes(labelLower, w)

\* The instruction generateTexture sends: its style, its directive lines and
\* which wording of the face rule it takes.
FullPrompt(style, anns) ==
    [style |-> style, directives |-> AnnotationText(anns),
     faceMarked |-> FaceDefined(anns)]

GenerateTexture(out) ==
    ImageCall(out, "No image data received from Gemini.", "Failed to generate texture")

EditTexture(out) ==
    ImageCall(out, "No edited image data received.", "Failed to edit texture")

-----------------------------------------------------------------------------
(* App *)

Init ==
    /\ uvImage = NoImage
    /\ annotations = <<>>
    /\ stylePrompt = <<>>
    /\ editPrompt = <<>>
    /\ isDetecting = FALSE
    /\ genState = InitialGenState
    /\ reads = EmptyBag
    /\ calls = EmptyBag
    /\ now = 0
    /\ tempLabel = <<>>
    /\ pendingClick = NoPending
    /\ draggingId = NoDrag

\* The messages of App, transliterated to ASCII.
ValidationMsg == "Pozhaluysta, opishite stil' tekstury."

GenericGenerateMsg == "Oshibka generatsii"

GenericEditMsg == "Oshibka redaktirovaniya"

\* An awaited service call: its kind, the base64 payload it was sent, and the
\* result image displayed when it was triggered.
\* A call as it is issued; stale marks the generate and edit calls issued
\* before the latest upload, that is for an earlier source image.
Call(kind, data, shown) ==
    [kind |-> kind, data |-> data, shown |-> shown, stale |-> FALSE]

Stale(c) == IF c.kind = "detect" THEN c ELSE [c EXCEPT !.stale = TRUE]

\* The calls in flight when reader.onload sets a new source image.
Outdated(inFlight) ==
    LET marked == {Stale(c) : c \in BagToSet(inFlight)} IN
    [d \in marked |->
        IF d.stale
        THEN CopiesIn(d, inFlight) + CopiesIn([d EXCEPT !.stale = FALSE], inFlight)
        ELSE CopiesIn(d, inFlight)]

\* setGenState(prev => ({ ...prev, resultImage: null, error: null }))
UploadReset(prev) == [prev EXCEPT !.resultImage = NoImage, !.error = NoError]

\* The validation error written as a whole state, dropping the result.
ValidationError_DropsResult(prev) ==
    [isLoading |-> FALSE, resultImage |-> NoImage, error |-> ValidationMsg]

\* setGenState(prev => ({ ...prev, error: "..." }))
ValidationError(prev) == [prev EXCEPT !.error = ValidationMsg]

\* setGenState({ isLoading: true, resultImage: null, error: null })
GenerateStart(prev) == [isLoading |-> TRUE, resultImage |-> NoImage, error |-> NoError]

\* setGenState({ isLoading: false, resultImage: result, error: null })
GenerateSuccess(prev, result) ==
    [isLoading |-> FALSE, resultImage |-> result, error |-> NoError]

\* setGenState({ isLoading: false, resultImage: null, error: err.message || "..." })
GenerateFailure_KeepsLoading(prev, msg) ==
    [isLoading |-> prev.isLoading, resultImage |-> NoImage,
     error |-> OrElse(msg, GenericGenerateMsg)]

GenerateFailure_GenericOnly(prev, msg) ==
    [isLoading |-> FALSE, resultImage |-> NoImage, error |-> GenericGenerateMsg]

GenerateFailure(prev, msg) ==
    [isLoading |-> FALSE, resultImage |-> NoImage,
     error |-> OrElse(msg, GenericGenerateMsg)]

\* setGenState(prev => ({ ...prev, isLoading: true, error: null }))
EditStart(prev) == [prev EXCEPT !.isLoading = TRUE, !.error = NoError]

\* setGenState({ isLoading: false, resultImage: result, error: null })
EditSuccess(prev, result) ==
    [isLoading |-> FALSE, resultImage |-> result, error |-> NoError]

\* The edit failure that forgets to clear the loading indicator.
EditFailure_KeepsLoading(prev, msg) ==
    [prev EXCEPT !.error = OrElse(msg, GenericEditMsg)]

\* setGenState(prev => ({ ...prev, isLoading: false, error: err.message || "..." }))
EditFailure(prev, msg) ==
    [prev EXCEPT !.isLoading = FALSE, !.error = OrElse(msg, GenericEditMsg)]

\* <input type="file" disabled={isDetecting}>
FileInputEnabled == ~isDetecting

\* <button onClick={handleGenerate} disabled={!uvImage || genState.isLoading || isDetecting}>
GenerateButtonEnabled ==
    ~(uvImage = NoImage \/ genState.isLoading \/ isDetecting)

\* {genState.resultImage && ( ... edit section ... )}
EditSectionShown == genState.resultImage # NoImage

\* <button onClick={handleEdit} disabled={!editPrompt.trim() || genState.isLoading}>
EditButtonEnabled == ~(IsBlank(editPrompt) \/ genState.isLoading)

\* if (!uvImage) return
GenerateReturnsEarly == uvImage = NoImage

\* The early return that forgets the instruction.
EditReturnsEarly_IgnoresPrompt == genState.resultImage = NoImage

\* if (!genState.resultImage || !editPrompt.trim()) return
EditReturnsEarly == genState.resultImage = NoImage \/ IsBlank(editPrompt)

\* An event that reaches no handler, or a handler that returns at once.
Ignored == UNCHANGED vars

\* handleFileUpload: the change event of the file input starts a FileReader.
SelectFile(f) ==
    IF FileInputEnabled
    THEN /\ Pending < MaxPending
         /\ reads' = reads (+) SetToBag({f})
         /\ UNCHANGED canvas
         /\ UNCHANGED <<uvImage, annotations, stylePrompt, editPrompt,
                        isDetecting, genState, calls, now>>
    ELSE Ignored

\* reader.onload up to its await: the reset and the start of detection.
ReaderLoad(f) ==
    /\ BagIn(f, reads)
    /\ uvImage' = f
    /\ annotations' = <<>>
    /\ genState' = UploadReset(genState)
    /\ isDetecting' = TRUE
    /\ calls' = calls (+) SetToBag({Call("detect", Split1(f), NoImage)})
    /\ reads' = reads (-) SetToBag({f})
    /\ UNCHANGED canvas
    /\ UNCHANGED <<stylePrompt, editPrompt, now>>

\* reader.onload up to its await, recording which of the calls in flight were
\* issued for the source image it replaces.
ReaderLoadMarked(f) ==
    /\ BagIn(f, reads)
    /\ uvImage' = f
    /\ annotations' = <<>>
    /\ genState' = UploadReset(genState)
    /\ isDetecting' = TRUE
    /\ calls' = Outdated(calls) (+) SetToBag({Call("detect", Split1(f), NoImage)})
    /\ reads' = reads (-) SetToBag({f})
    /\ UNCHANGED canvas
    /\ UNCHANGED <<stylePrompt, editPrompt, now>>

\* reader.onload after its await: detectUVParts has resolved.
DetectComplete(c, out, ts) ==
    /\ BagIn(c, calls)
    /\ c.kind = "detect"
    /\ LET detectedParts == DetectUVParts(out, ts) IN
        annotations' = IF Len(detectedParts) > 0 THEN detectedParts ELSE annotations
    /\ isDetecting' = FALSE
    /\ now' = IF Len(ts) > 0 THEN ts[Len(ts)] ELSE now
    /\ calls' = calls (-) SetToBag({c})
    /\ UNCHANGED canvas
    /\ UNCHANGED <<uvImage, stylePrompt, editPrompt, genState, reads>>

\* The same, for every sequence of readings Date.now() can return.
DetectResolve(c, out) ==
    \E ts \in ClockReads(DetectReads(out)) : DetectComplete(c, out, ts)

\* handleGenerate up to its await.
HandleGenerate ==
    IF GenerateReturnsEarly THEN Ignored
    ELSE IF IsBlank(stylePrompt)
    THEN /\ genState' = ValidationError(genState)
         /\ UNCHANGED canvas
         /\ UNCHANGED <<uvImage, annotations, stylePrompt, editPrompt,
                        isDetecting, reads, calls, now>>
    ELSE IF PromptThrows(annotations)
    THEN /\ genState' = GenerateFailure(GenerateStart(genState), TypeErrorMsg)
         /\ UNCHANGED canvas
         /\ UNCHANGED <<uvImage, annotations, stylePrompt, editPrompt,
                        isDetecting, reads, calls, now>>
    ELSE LET call == Call("generate", Split1(uvImage), genState.resultImage) IN
         /\ Pending < MaxPending
         /\ genState' = GenerateStart(genState)
         /\ calls' = calls (+) SetToBag({call})
         /\ UNCHANGED canvas
         /\ UNCHANGED <<uvImage, annotations, stylePrompt, editPrompt,
                        isDetecting, reads, now>>

\* handleGenerate after its await: generateTexture has resolved or rejected.
GenerateComplete(c, out) ==
    /\ BagIn(c, calls)
    /\ c.kind = "generate"
    /\ LET r == GenerateTexture(out) IN
        genState' = IF r.ok THEN GenerateSuccess(genState, r.value)
                    ELSE GenerateFailure(genState, r.msg)
    /\ calls' = calls (-) SetToBag({c})
    /\ UNCHANGED canvas
    /\ UNCHANGED <<uvImage, annotations, stylePrompt, editPrompt, isDetecting,
                   reads, now>>

\* handleEdit up to its await.
HandleEdit ==
    IF EditReturnsEarly THEN Ignored
    ELSE LET call == Call("edit", Split1(genState.resultImage), genState.resultImage) IN
         /\ Pending < MaxPending
         /\ genState' = EditStart(genState)
         /\ calls' = calls (+) SetToBag({call})
         /\ UNCHANGED canvas
         /\ UNCHANGED <<uvImage, annotations, stylePrompt, editPrompt,
                        isDetecting, reads, now>>

\* handleEdit after its await: editTexture has resolved or rejected.
EditComplete(c, out) ==
    /\ BagIn(c, calls)
    /\ c.kind = "edit"
    /\ LET r == EditTexture(out) IN
        /\ genState' = IF r.ok THEN EditSuccess(genState, r.value)
                       ELSE EditFailure(genState, r.msg)
        /\ editPrompt' = IF r.ok THEN <<>> ELSE editPrompt
    /\ calls' = calls (-) SetToBag({c})
    /\ UNCHANGED canvas
    /\ UNCHANGED <<uvImage, annotations, stylePrompt, isDetecting, reads, now>>

\* A click on the generate button.
ClickGenerate ==
    IF GenerateButtonEnabled THEN HandleGenerate
    ELSE Ignored

\* A click on the edit button.
ClickEdit ==
    IF EditSectionShown /\ EditButtonEnabled THEN HandleEdit
    ELSE Ignored

\* onKeyDown={(e) => e.key === 'Enter' && handleEdit()} of the edit field
EnterEdit ==
    IF EditSectionShown THEN HandleEdit
    ELSE Ignored

\* textarea onChange: setStylePrompt(e.target.value)
SetStylePrompt(t) ==
    /\ stylePrompt' = t
    /\ UNCHANGED canvas
    /\ UNCHANGED <<uvImage, annotations, editPrompt, isDetecting, genState,
                   reads, calls, now>>

\* edit field onChange: setEditPrompt(e.target.value)
SetEditPrompt(t) ==
    /\ EditSectionShown
    /\ editPrompt' = t
    /\ UNCHANGED canvas
    /\ UNCHANGED <<uvImage, annotations, stylePrompt, isDetecting, genState,
                   reads, calls, now>>

Next ==
    \/ \E f \in Files : SelectFile(f)
    \/ \E f \in Files : ReaderLoad(f)
    \/ \E c \in BagToSet(calls) : \E out \in DetectOutcomes : DetectResolve(c, out)
    \/ \E t \in StyleInputs : SetStylePrompt(t)
    \/ \E t \in EditInputs : SetEditPrompt(t)
    \/ ClickGenerate
    \/ ClickEdit
    \/ EnterEdit
    \/ \E c \in BagToSet(calls) : \E out \in ImageOutcomes : GenerateComplete(c, out)
    \/ \E c \in BagToSet(calls) : \E out \in ImageOutcomes : EditComplete(c, out)

Spec == Init /\ [][Next]_vars

\* The answers under which the indicators are followed to their end: a
\* detection that fails, one that finds a part and one whose part lacks its
\* label; an image call that rejects, one without image data and one with.
DetectAnswers ==
    {DetectOut("throw", <<>>), DetectOut("array", <<FaceItem>>),
     DetectOut("array", <<NoLabelItem>>)}

ImageAnswers ==
    {ImageOut("raise", "", <<>>), ImageOut("response", "", <<TextPart>>),
     ImageOut("response", "", <<TextPart, ImgPart("P1")>>)}

DetectSettles ==
    \E c \in BagToSet(calls) : \E out \in DetectAnswers : DetectResolve(c, out)

GenerateSettles ==
    \E c \in BagToSet(calls) : \E out \in ImageAnswers : GenerateComplete(c, out)

EditSettles ==
    \E c \in BagToSet(calls) : \E out \in ImageAnswers : EditComplete(c, out)

\* The coordinator under those answers.
NextLive ==
    \/ \E f \in Files : SelectFile(f)
    \/ \E f \in Files : ReaderLoad(f)
    \/ DetectSettles
    \/ SetStylePrompt(<<" ", "n", "e", "o", "n">>)
    \/ SetEditPrompt(<<"r", "e", "d", " ">>)
    \/ ClickGenerate
    \/ ClickEdit
    \/ EnterEdit
    \/ GenerateSettles
    \/ EditSettles

\* Every call that was issued resolves or rejects: the promise awaited by
\* reader.onload, by handleGenerate and by handleEdit is eventually settled.
CallsSettle ==
    /\ WF_vars(DetectSettles)
    /\ WF_vars(GenerateSettles)
    /\ WF_vars(EditSettles)

SpecLive == Init /\ [][NextLive]_vars /\ CallsSettle

\* The coordinator with the calls of earlier source images marked.
NextMarked ==
    \/ \E f \in Files : SelectFile(f)
    \/ \E f \in Files : ReaderLoadMarked(f)
    \/ \E c \in BagToSet(calls) : \E out \in DetectOutcomes : DetectResolve(c, out)
    \/ \E t \in StyleInputs : SetStylePrompt(t)
    \/ \E t \in EditInputs : SetEditPrompt(t)
    \/ ClickGenerate
    \/ ClickEdit
    \/ EnterEdit
    \/ \E c \in BagToSet(calls) : \E out \in ImageOutcomes : GenerateComplete(c, out)
    \/ \E c \in BagToSet(calls) : \E out \in ImageOutcomes : EditComplete(c, out)

SpecMarked == Init /\ [][NextMarked]_vars

-----------------------------------------------------------------------------
(* components/CanvasEditor *)

\* containerRef.current.getBoundingClientRect()
Rect == [left |-> 10, top |-> 20, width |-> 50, height |-> 25]

\* Pointer positions <<clientX, clientY>>.  A click reaches the surface only
\* inside the rectangle; a pointer captured by a drag moves anywhere in the
\* window.  The positions are those whose percentages are whole numbers.
ClickPoints == {<<35, 30>>}

MovePoints == {<<0, 50>>, <<70, 30>>, <<35, 10>>}

\* What the user types into the label input.
LabelInputs == {<<>>, <<" ">>, <<" ", "A", " ">>}

Max(a, b) == IF a >= b THEN a ELSE b

Min(a, b) == IF a <= b THEN a ELSE b

\* ((client - origin) / size) * 100
Percent(client, origin, size) == ((client - origin) * 100) \div size

Position_Pixels(p) == <<p[1] - Rect.left, p[2] - Rect.top>>

\* The pointer position as percentages of the surface.
Position(p) ==
    <<Percent(p[1], Rect.left, Rect.width), Percent(p[2], Rect.top, Rect.height)>>

Clamp_Unbounded(v) == v

\* Math.max(0, Math.min(100, v))
Clamp(v) == Max(0, Min(100, v))

\* Date.now().toString()
ManualId(t) == <<t>>

Ids(anns) == {anns[i].id : i \in 1..Len(anns)}

HandleImageClick_IgnoresDrag(pending, dragging, imageSrc, p) ==
    IF imageSrc = NoImage THEN pending ELSE Position(p)

\* handleImageClick: the pending position after a click at p.
HandleImageClick(pending, dragging, imageSrc, p) ==
    IF dragging # NoDrag \/ imageSrc = NoImage THEN pending ELSE Position(p)

AddAnnotation_AcceptsBlank(anns, pending, label, t) ==
    IF pending # NoPending
    THEN [annotations |->
              Append(anns, [id |-> ManualId(t), x |-> pending[1],
                            y |-> pending[2], label |-> Trim(label)]),
          tempLabel |-> <<>>, pendingClick |-> NoPending, now |-> t]
    ELSE [annotations |-> anns, tempLabel |-> label, pendingClick |-> pending,
          now |-> now]

\* addAnnotation at clock reading t: what it leaves of the store, the label
\* and the pending position.
AddAnnotation(anns, pending, label, t) ==
    IF pending # NoPending /\ ~IsBlank(label)
    THEN [annotations |->
              Append(anns, [id |-> ManualId(t), x |-> pending[1],
                            y |-> pending[2], label |-> Trim(label)]),
          tempLabel |-> <<>>, pendingClick |-> NoPending, now |-> t]
    ELSE [annotations |-> anns, tempLabel |-> label, pendingClick |-> pending,
          now |-> now]

\* annotations.filter(a => a.id !== id)
RemoveAnnotation(anns, id) ==
    LET Keep(a) == a.id # id IN SelectSeq(anns, Keep)

HandlePointerMove_ByOffset(anns, dragging, p) ==
    IF dragging = NoDrag THEN anns
    ELSE [i \in 1..Len(anns) |->
            IF anns[i].id = dragging
            THEN [anns[i] EXCEPT !.x = Clamp(anns[i].x + Position(p)[1] - 50),
                                 !.y = Clamp(anns[i].y + Position(p)[2] - 50)]
            ELSE anns[i]]

HandlePointerMove_MovesAll(anns, dragging, p) ==
    IF dragging = NoDrag THEN anns
    ELSE [i \in 1..Len(anns) |->
            [anns[i] EXCEPT !.x = Clamp(Position(p)[1]),
                            !.y = Clamp(Position(p)[2])]]

\* handlePointerMove: the store after the pointer moved to p.
HandlePointerMove(anns, dragging, p) ==
    IF dragging = NoDrag THEN anns
    ELSE [i \in 1..Len(anns) |->
            IF anns[i].id = dragging
            THEN [anns[i] EXCEPT !.x = Clamp(Position(p)[1]),
                                 !.y = Clamp(Position(p)[2])]
            ELSE anns[i]]

\* App renders the CanvasEditor once an image is loaded.
Mounted == uvImage # NoImage

\* The label prompt is rendered.
PromptShown == Mounted /\ pendingClick # NoPending /\ draggingId = NoDrag

OkButtonEnabled == ~IsBlank(tempLabel)

\* A click on the surface.
ClickSurface(p) ==
    /\ Mounted
    /\ pendingClick' = HandleImageClick(pendingClick, draggingId, uvImage, p)
    /\ UNCHANGED <<app, annotations, now, tempLabel, draggingId>>

\* Typing into the label input.
SetTempLabel(t) ==
    /\ PromptShown
    /\ tempLabel' = t
    /\ UNCHANGED <<app, annotations, now, pendingClick, draggingId>>

\* addAnnotation, run by the Enter key or the OK button.
Commit(t) ==
    LET r == AddAnnotation(annotations, pendingClick, tempLabel, t) IN
    /\ annotations' = r.annotations
    /\ tempLabel' = r.tempLabel
    /\ pendingClick' = r.pendingClick
    /\ now' = r.now
    /\ UNCHANGED <<app, draggingId>>

\* The Enter key in the label input.
EnterLabel ==
    /\ PromptShown
    /\ Len(annotations) < MaxAnnotations
    /\ \E t \in now..MaxClock : Commit(t)

\* The OK button, disabled while the label is blank.
ClickOk ==
    /\ PromptShown
    /\ Len(annotations) < MaxAnnotations
    /\ IF OkButtonEnabled THEN \E t \in now..MaxClock : Commit(t) ELSE Ignored

\* handleCancel
HandleCancel ==
    /\ PromptShown
    /\ pendingClick' = NoPending
    /\ tempLabel' = <<>>
    /\ UNCHANGED <<app, annotations, now, draggingId>>

\* startDrag: pointer down on the pin of annotation id.
StartDrag(id) ==
    /\ Mounted
    /\ id \in Ids(annotations)
    /\ draggingId' = id
    /\ pendingClick' = NoPending
    /\ UNCHANGED <<app, annotations, now, tempLabel>>

\* The window's pointermove listener, attached while draggingId is set.
PointerMove(p) ==
    /\ Mounted
    /\ draggingId # NoDrag
    /\ annotations' = HandlePointerMove(annotations, draggingId, p)
    /\ UNCHANGED <<app, now, canvas>>

HandlePointerUp_Snaps ==
    /\ Mounted
    /\ draggingId # NoDrag
    /\ draggingId' = NoDrag
    /\ annotations' = HandlePointerMove(annotations, draggingId, <<0, 10>>)
    /\ UNCHANGED <<app, now, tempLabel, pendingClick>>

\* The window's pointerup listener: handlePointerUp.
HandlePointerUp ==
    /\ Mounted
    /\ draggingId # NoDrag
    /\ draggingId' = NoDrag
    /\ UNCHANGED <<app, annotations, now, tempLabel, pendingClick>>

\* The remove button of annotation id: in the legend, or on the pin while
\* nothing is dragged.
ClickRemove(id) ==
    /\ Mounted
    /\ id \in Ids(annotations)
    /\ annotations' = RemoveAnnotation(annotations, id)
    /\ UNCHANGED <<app, now, canvas>>

\* The clear-all button of the legend.
ClearAll ==
    /\ Mounted
    /\ Len(annotations) > 0
    /\ annotations' = <<>>
    /\ UNCHANGED <<app, now, canvas>>

\* The detections the canvas is followed under: one that fails, one that
\* finds a part, one whose part lacks its label, one whose part lies outside
\* the image.
CanvasAnswers == DetectAnswers \cup {DetectOut("array", <<FarItem>>)}

\* The annotation store under upload, detection and the canvas.
NextCanvas ==
    \/ \E f \in Files : SelectFile(f)
    \/ \E f \in Files : ReaderLoad(f)
    \/ \E c \in BagToSet(calls) : \E out \in CanvasAnswers : DetectResolve(c, out)
    \/ \E p \in ClickPoints : ClickSurface(p)
    \/ \E t \in LabelInputs : SetTempLabel(t)
    \/ EnterLabel
    \/ ClickOk
    \/ HandleCancel
    \/ \E id \in Ids(annotations) : StartDrag(id)
    \/ \E p \in MovePoints : PointerMove(p)
    \/ HandlePointerUp
    \/ \E id \in Ids(annotations) : ClickRemove(id)
    \/ ClearAll

SpecCanvas == Init /\ [][NextCanvas]_vars

\* Labels a user can type for a part.
PromptLabels ==
    {<<"F", "a", "c", "e">>, <<"H", "E", "A", "D">>,
     <<"F", "o", "r", "e", "h", "e", "a", "d">>, <<"T", "o", "r", "s", "o">>,
     <<"U+041B", "U+0438", "U+0446", "U+043E">>, <<"f", "a", " ", "c", "e">>}

\* The stores of at most two annotations committed under those labels, the
\* first at clock reading 0 and the second at 1.
PromptStores ==
    {<<>>}
    \cup {<<[id |-> ManualId(0), x |-> 50, y |-> 40, label |-> a]>> : a \in PromptLabels}
    \cup {<<[id |-> ManualId(0), x |-> 50, y |-> 40, label |-> a],
            [id |-> ManualId(1), x |-> 100, y |-> 0, label |-> b]>> :
            a \in PromptLabels, b \in PromptLabels}

\* An image is loaded, a style is typed and the store is one of PromptStores.
InitPrompt ==
    /\ uvImage \in Files
    /\ annotations \in PromptStores
    /\ stylePrompt = <<" ", "n", "e", "o", "n">>
    /\ editPrompt = <<>>
    /\ isDetecting = FALSE
    /\ genState = InitialGenState
    /\ reads = EmptyBag
    /\ calls = EmptyBag
    /\ now = 1
    /\ tempLabel = <<>>
    /\ pendingClick = NoPending
    /\ draggingId = NoDrag

\* Generating from those stores.
NextPrompt ==
    \/ ClickGenerate
    \/ GenerateSettles

SpecPrompt == InitPrompt /\ [][NextPrompt]_vars

-----------------------------------------------------------------------------
(* Helpers of the properties *)

\* In flight: the calls of one kind awaiting their response.
InFlight(kind) == {c \in BagToSet(calls) : c.kind = kind}

\* This step issues a call of the kind.
Started(kind) ==
    \E c \in BagToSet(calls') :
        c.kind = kind /\ CopiesIn(c, calls') > CopiesIn(c, calls)

-----------------------------------------------------------------------------
(* C1 *)

\* C1: the reset step of an upload, from any prior state, leaves Generation
\* State equal to {isLoading:false, resultImage:null, error:null} and the
\* annotation list empty.
C1_UploadResetsAll ==
    [][\A f \in Files :
          ReaderLoad(f) => genState' = InitialGenState /\ annotations' = <<>>]_vars

-----------------------------------------------------------------------------
(* C2 *)

\* C2: at most one external call among detect, generate and edit is in
\* flight at any moment.
C2_AtMostOneCallInFlight == BagCardinality(calls) <= 1

-----------------------------------------------------------------------------
(* C3 *)

\* C3: while isLoading is true, a click on the generate button, a click on the
\* edit button and Enter in the edit field issue no call and leave Generation
\* State unchanged.
C3_TriggersIgnoredWhileLoading ==
    [][genState.isLoading /\ (ClickGenerate \/ ClickEdit \/ EnterEdit)
          => calls' = calls /\ genState' = genState]_vars

-----------------------------------------------------------------------------
(* C4 *)

\* C4: a generate call triggered while result image R is displayed, and then
\* failing, leaves resultImage = R, error = the failure message and
\* isLoading = false.
C4_GenerateFailureKeepsResult ==
    [][\A c \in BagToSet(calls) : \A out \in ImageOutcomes :
          (GenerateComplete(c, out) /\ c.shown # NoImage /\ ~GenerateTexture(out).ok)
          => /\ genState'.resultImage = c.shown
             /\ genState'.error = GenerateTexture(out).msg
             /\ ~genState'.isLoading]_vars

-----------------------------------------------------------------------------
(* C5 *)

\* C5: an edit call triggered with resultImage = R, and then failing, leaves
\* resultImage = R, error = the failure message and isLoading = false.
C5_EditFailureKeepsResult ==
    [][\A c \in BagToSet(calls) : \A out \in ImageOutcomes :
          (EditComplete(c, out) /\ ~EditTexture(out).ok)
          => /\ genState'.resultImage = c.shown
             /\ genState'.error = EditTexture(out).msg
             /\ ~genState'.isLoading]_vars

-----------------------------------------------------------------------------
(* C6 *)

\* C6: isLoading = true and error # null never hold together.
C6_LoadingExcludesError == ~(genState.isLoading /\ genState.error # NoError)

\* An error is shown while a generate or edit call is still in flight: a
\* failure has been handled next to a running call.
C6_Witness ==
    /\ genState.error # NoError
    /\ InFlight("generate") \cup InFlight("edit") # {}

-----------------------------------------------------------------------------
(* C7 *)

\* C7: handleGenerate with a loaded image and a style description that is
\* empty or only whitespace issues no call, sets error to the validation
\* message, and leaves isLoading, resultImage and the annotations unchanged.
C7_BlankStyleIsValidationError ==
    [][(HandleGenerate /\ uvImage # NoImage /\ IsBlank(stylePrompt))
          => /\ calls' = calls
             /\ genState'.error = ValidationMsg
             /\ genState'.isLoading = genState.isLoading
             /\ genState'.resultImage = genState.resultImage
             /\ annotations' = annotations]_vars

\* The validation message is shown next to a result image that survived it.
C7_Witness ==
    /\ genState.error = ValidationMsg
    /\ genState.resultImage # NoImage
    /\ IsBlank(stylePrompt)

-----------------------------------------------------------------------------
(* C8 *)

\* C8: a generate call starts only with a source image loaded and a style
\* description that is not blank; an edit call starts only with a result image
\* and an edit instruction that is not blank; a trigger without the image,
\* without the result or with a blank edit instruction changes nothing.
C8_StartPreconditions ==
    [][/\ Started("generate") => uvImage # NoImage /\ ~IsBlank(stylePrompt)
       /\ Started("edit") => genState.resultImage # NoImage /\ ~IsBlank(editPrompt)
       /\ (ClickGenerate /\ uvImage = NoImage) => UNCHANGED vars
       /\ ((ClickEdit \/ EnterEdit)
              /\ (genState.resultImage = NoImage \/ IsBlank(editPrompt)))
          => UNCHANGED vars]_vars

\* An edit call is in flight while the edit field has been blanked again: both
\* kinds of call have started, and a blank edit trigger is possible.
C8_Witness ==
    /\ InFlight("edit") # {}
    /\ genState.resultImage # NoImage
    /\ IsBlank(editPrompt)

-----------------------------------------------------------------------------
(* C9 *)

\* C9: a detect call that throws, answers without text or answers malformed
\* data resolves to the empty sequence; when it completes the annotations are
\* as they were, the detecting indicator is off, Generation State is untouched
\* and the generate button is usable.
C9_DetectFailureYieldsNothing ==
    [][\A c \in BagToSet(calls) : \A out \in DetectOutcomes :
          (DetectResolve(c, out) /\ ~WellFormed(out))
          => /\ \A ts \in ClockReads(DetectReads(out)) : DetectUVParts(out, ts) = <<>>
             /\ annotations' = annotations
             /\ ~isDetecting'
             /\ genState' = genState
             /\ ~genState.isLoading => GenerateButtonEnabled']_vars

-----------------------------------------------------------------------------
(* C10 *)

\* part.inlineData && part.inlineData.data
BearsImage(part) == part.inlineData /\ part.data # ""

\* C10: when a generate call succeeds, Generation State becomes
\* {isLoading:false, resultImage: the image generateTexture returned, error:null},
\* that image being the data URI of the first response part bearing image data.
C10_GenerateSuccessSetsResult ==
    [][\A c \in BagToSet(calls) : \A out \in ImageOutcomes :
          (GenerateComplete(c, out) /\ out.kind = "response"
              /\ \E k \in 1..Len(out.parts) : BearsImage(out.parts[k]))
          => \E k \in 1..Len(out.parts) :
                /\ BearsImage(out.parts[k])
                /\ \A j \in 1..(k - 1) : ~BearsImage(out.parts[j])
                /\ genState' = [isLoading |-> FALSE,
                                resultImage |-> <<"data:image/png;base64", out.parts[k].data>>,
                                error |-> NoError]]_vars

\* A result image is displayed, taken from a response whose first parts bore
\* no image data.
C10_Witness ==
    /\ genState = [isLoading |-> FALSE, resultImage |-> PngUri("P2"), error |-> NoError]
    /\ ~IsBlank(stylePrompt)
    /\ calls = EmptyBag

-----------------------------------------------------------------------------
(* C11 *)

\* C11: when a generate call issued while no result was displayed fails with
\* service message M and nothing has been displayed since, Generation State
\* becomes {isLoading:false, resultImage:null, error:M}.
C11_FirstGenerateFailure ==
    [][\A c \in BagToSet(calls) : \A out \in ImageOutcomes :
          (GenerateComplete(c, out) /\ c.shown = NoImage
              /\ genState.resultImage = NoImage
              /\ out.kind = "raise" /\ out.msg # "")
          => genState' = [isLoading |-> FALSE, resultImage |-> NoImage,
                          error |-> out.msg]]_vars

\* The service's message is displayed with no result image and nothing loading.
C11_Witness ==
    /\ genState = [isLoading |-> FALSE, resultImage |-> NoImage,
                   error |-> "quota exceeded"]
    /\ uvImage # NoImage
    /\ calls = EmptyBag

-----------------------------------------------------------------------------
(* C12 *)

\* C12: committing the pending placement (Enter key or OK button) with a blank
\* label creates no annotation and leaves the pending position in place; with
\* a non-blank label it appends exactly one annotation carrying the pending
\* coordinates and the trimmed label, and clears the pending position;
\* addAnnotation without a pending position leaves the store as it is.
C12_CommitPending ==
    /\ [][(EnterLabel \/ ClickOk) =>
            IF IsBlank(tempLabel)
            THEN annotations' = annotations /\ pendingClick' = pendingClick
            ELSE /\ Len(annotations') = Len(annotations) + 1
                 /\ SubSeq(annotations', 1, Len(annotations)) = annotations
                 /\ annotations'[Len(annotations')].x = pendingClick[1]
                 /\ annotations'[Len(annotations')].y = pendingClick[2]
                 /\ annotations'[Len(annotations')].label = Trim(tempLabel)
                 /\ pendingClick' = NoPending]_vars
    /\ [](\A l \in LabelInputs : \A t \in 0..MaxClock :
            AddAnnotation(annotations, NoPending, l, t).annotations = annotations)

\* A placement was committed under the label " A ": the store holds an
\* annotation "A" at the clicked position and nothing is pending.
C12_Witness ==
    /\ \E i \in 1..Len(annotations) :
          /\ annotations[i].label = <<"A">>
          /\ annotations[i].x = 50 /\ annotations[i].y = 40
          /\ annotations[i].id \in {ManualId(t) : t \in 0..MaxClock}
    /\ pendingClick = NoPending
    /\ tempLabel = <<>>

-----------------------------------------------------------------------------
(* C13 *)

\* C13: a pending placement and an active drag never coexist: starting a drag
\* clears the pending placement, and a click on the surface during a drag
\* opens none.
C13_PendingExcludesDrag ==
    /\ [](~(pendingClick # NoPending /\ draggingId # NoDrag))
    /\ [][\A id \in Ids(annotations) : StartDrag(id) => pendingClick' = NoPending]_vars
    /\ [][\A p \in ClickPoints :
            (ClickSurface(p) /\ draggingId # NoDrag) => pendingClick' = NoPending]_vars

\* A drag is active and the label typed for a placement is still in the
\* input: the drag began while that placement was pending.
C13_Witness ==
    /\ draggingId # NoDrag
    /\ pendingClick = NoPending
    /\ ~IsBlank(tempLabel)

-----------------------------------------------------------------------------
(* C14 *)

\* The pointer lies left of (above) the surface, or right of (below) it.
Before(client, origin) == client < origin

Beyond(client, origin, size) == client > origin + size

\* C14: for every pointer position during a drag, handlePointerMove leaves the
\* dragged annotation with x and y in [0,100]: exactly 0 on an axis where the
\* pointer lies before the surface, exactly 100 where it lies beyond it, each
\* axis apart from the other.
C14_DragClamped ==
    \A p \in MovePoints :
        draggingId # NoDrag =>
            LET after == HandlePointerMove(annotations, draggingId, p) IN
            \A i \in 1..Len(after) :
                after[i].id = draggingId =>
                    /\ after[i].x >= 0 /\ after[i].x <= 100
                    /\ after[i].y >= 0 /\ after[i].y <= 100
                    /\ Before(p[1], Rect.left) => after[i].x = 0
                    /\ Beyond(p[1], Rect.left, Rect.width) => after[i].x = 100
                    /\ Before(p[2], Rect.top) => after[i].y = 0
                    /\ Beyond(p[2], Rect.top, Rect.height) => after[i].y = 100

\* The dragged annotation was moved by a pointer left of the surface and
\* below it: it sits at the lower-left corner.
C14_Witness ==
    /\ draggingId # NoDrag
    /\ \E i \in 1..Len(annotations) :
          /\ annotations[i].id = draggingId
          /\ annotations[i].x = 0
          /\ annotations[i].y = 100

-----------------------------------------------------------------------------
(* C15 *)

\* C15: removing the annotation of an id the store holds leaves one
\* annotation fewer, none of that id, and the others as they were and in the
\* same order; removeAnnotation of an id the store lacks changes nothing;
\* clear-all leaves the empty store.
C15_RemoveOne ==
    /\ [][\A id \in Ids(annotations) :
            ClickRemove(id) =>
                /\ Len(annotations') = Len(annotations) - 1
                /\ id \notin Ids(annotations')
                /\ \E k \in 1..Len(annotations) :
                      /\ annotations[k].id = id
                      /\ annotations' =
                            SubSeq(annotations, 1, k - 1)
                                \o SubSeq(annotations, k + 1, Len(annotations))]_vars
    /\ [](\A t \in 0..MaxClock :
            ManualId(t) \notin Ids(annotations)
                => RemoveAnnotation(annotations, ManualId(t)) = annotations)
    /\ [][ClearAll => annotations' = <<>>]_vars

-----------------------------------------------------------------------------
(* C16 *)

\* C16: in every reachable state the ids of the annotations in the store are
\* pairwise distinct.
C16_IdsDistinct ==
    \A i \in 1..Len(annotations) : \A j \in 1..Len(annotations) :
        i # j => annotations[i].id # annotations[j].id

-----------------------------------------------------------------------------
(* C17 *)

\* C17: in every reachable state every annotation in the store has x and y
\* within [0,100].
C17_CoordinatesInRange ==
    \A i \in 1..Len(annotations) :
        /\ annotations[i].x >= 0 /\ annotations[i].x <= 100
        /\ annotations[i].y >= 0 /\ annotations[i].y <= 100

-----------------------------------------------------------------------------
(* C18 *)

\* C18: handlePointerMove is idempotent: during a drag, applying it twice with
\* the same pointer position leaves the store that applying it once leaves.
C18_DragIdempotent ==
    \A p \in MovePoints :
        draggingId # NoDrag =>
            HandlePointerMove(HandlePointerMove(annotations, draggingId, p),
                              draggingId, p)
                = HandlePointerMove(annotations, draggingId, p)

\* The dragged annotation was moved by a pointer right of the surface: it
\* sits on the right edge, at the pointer's height.
C18_Witness ==
    /\ draggingId # NoDrag
    /\ \E i \in 1..Len(annotations) :
          /\ annotations[i].id = draggingId
          /\ annotations[i].x = 100
          /\ annotations[i].y = 40

-----------------------------------------------------------------------------
(* C19 *)

\* C19: an annotation leaves the store only by its remove button, by
\* clear-all, or by the reset of an upload; so the annotations committed
\* while a detect call is in flight are in the store after it completes.
C19_RemovedOnlyOnRequest ==
    [][(\E i \in 1..Len(annotations) :
            \A j \in 1..Len(annotations') : annotations'[j].id # annotations[i].id)
        => \/ \E id \in Ids(annotations) : ClickRemove(id)
           \/ ClearAll
           \/ \E f \in Files : ReaderLoad(f)]_vars

-----------------------------------------------------------------------------
(* C20 *)

\* C20: an upload leaves no result image and nothing loading, and the late
\* completion of a generate or edit call issued for the previous source image
\* sets neither resultImage nor error.
C20_StaleCompletionIgnored ==
    /\ [][\A f \in Files :
            ReaderLoadMarked(f)
                => ~genState'.isLoading /\ genState'.resultImage = NoImage]_vars
    /\ [][\A c \in BagToSet(calls) : \A out \in ImageOutcomes :
            ((GenerateComplete(c, out) \/ EditComplete(c, out)) /\ c.stale)
                => /\ genState'.resultImage = genState.resultImage
                   /\ genState'.error = genState.error]_vars

-----------------------------------------------------------------------------
(* C21 *)

\* C21: when every issued call eventually resolves or rejects, every state
\* with isLoading true is followed by one with isLoading false, and every
\* state with isDetecting true by one with isDetecting false.
C21_IndicatorsClear ==
    /\ genState.isLoading ~> ~genState.isLoading
    /\ isDetecting ~> ~isDetecting

\* A generate call has failed and left its message while a detection is
\* still awaited: one indicator was cleared, the other is on.
C21_Witness ==
    /\ ~genState.isLoading
    /\ genState.error = "Failed to generate texture"
    /\ isDetecting
    /\ InFlight("detect") # {}

-----------------------------------------------------------------------------
(* C22 *)

\* C22: pointer moves change coordinates only while a drag is active, that is
\* between startDrag and the next pointer-up: a pointer move is handled only
\* with draggingId set and leaves it set; handlePointerUp clears draggingId
\* and changes no annotation; with no drag handlePointerMove leaves the store
\* as it is.
C22_MovesOnlyWhileDragging ==
    /\ [][/\ \A p \in MovePoints :
                PointerMove(p) => draggingId # NoDrag /\ draggingId' = draggingId
          /\ HandlePointerUp => draggingId' = NoDrag /\ annotations' = annotations]_vars
    /\ [](\A p \in MovePoints :
            HandlePointerMove(annotations, NoDrag, p) = annotations)

\* A drag has ended: the annotation stays on the upper edge, where the
\* pointer above the surface left it, and nothing is dragged.
C22_Witness ==
    /\ draggingId = NoDrag
    /\ \E i \in 1..Len(annotations) :
          annotations[i].x = 50 /\ annotations[i].y = 0

-----------------------------------------------------------------------------
(* C23 *)

\* C23: handlePointerMove changes only the x and y of the annotation whose id
\* is draggingId: the number and order of the annotations, every id and
\* label, and every annotation of another id stay as they are; when no
\* annotation has that id the store stays as it is.
C23_DragFrame ==
    \A p \in MovePoints :
        draggingId # NoDrag =>
            LET after == HandlePointerMove(annotations, draggingId, p) IN
            /\ Len(after) = Len(annotations)
            /\ \A i \in 1..Len(annotations) :
                  /\ after[i].id = annotations[i].id
                  /\ after[i].label = annotations[i].label
                  /\ annotations[i].id # draggingId => after[i] = annotations[i]
            /\ draggingId \notin Ids(annotations) => after = annotations

\* Of two annotations the dragged one was moved to the right edge and the
\* other, of another id, is in the store beside it.
C23_Witness ==
    /\ draggingId # NoDrag
    /\ \E i \in 1..Len(annotations) : \E j \in 1..Len(annotations) :
          /\ annotations[i].id = draggingId
          /\ annotations[i].x = 100
          /\ annotations[j].id # draggingId
          /\ annotations[j].x # 100

-----------------------------------------------------------------------------
(* C24 *)

\* C24: a click on the surface with no drag active and an image loaded sets
\* the pending position to the click's position as percentages of the surface
\* and leaves the store as it is; a click with a drag active, or with no
\* image, changes neither; cancel clears the pending position and leaves the
\* store as it is.
C24_ClickAndCancelFrame ==
    /\ [][/\ \A p \in ClickPoints :
                ClickSurface(p) =>
                    /\ annotations' = annotations
                    /\ IF draggingId = NoDrag /\ uvImage # NoImage
                       THEN /\ Len(pendingClick') = 2
                            /\ pendingClick'[1] * Rect.width = (p[1] - Rect.left) * 100
                            /\ pendingClick'[2] * Rect.height = (p[2] - Rect.top) * 100
                       ELSE pendingClick' = pendingClick
          /\ HandleCancel => annotations' = annotations /\ pendingClick' = NoPending]_vars
    /\ [](\A p \in ClickPoints :
            HandleImageClick(pendingClick, draggingId, NoImage, p) = pendingClick)

\* A click at the middle of the surface opened a prompt there, and the store
\* is still empty.
C24_Witness ==
    /\ pendingClick = <<50, 40>>
    /\ draggingId = NoDrag
    /\ annotations = <<>>
    /\ tempLabel = <<>>

-----------------------------------------------------------------------------
(* C25 *)

\* The text has the word at some position.
HasWord(text, w) ==
    \E k \in 1..(Len(text) - Len(w) + 1) : SubSeq(text, k, k + Len(w) - 1) = w

\* C25: the instruction takes the 'face is marked' wording exactly when some
\* annotation's label, lower-cased, contains "face", "head" or one of their
\* two Russian translations, never with an empty store; and it holds one
\* coordinate directive per annotation, in the order of the store.
C25_FaceBranchAndDirectives ==
    LET prompt == FullPrompt(stylePrompt, annotations) IN
    /\ prompt.faceMarked <=>
          \E i \in 1..Len(annotations) : \E w \in FaceWords :
              HasWord(ToLowerCase(annotations[i].label), w)
    /\ annotations = <<>> => ~prompt.faceMarked
    /\ Len(prompt.directives) = Len(annotations)
    /\ \A i \in 1..Len(annotations) :
          /\ prompt.directives[i].label = annotations[i].label
          /\ prompt.directives[i].x = annotations[i].x
          /\ prompt.directives[i].y = annotations[i].y

\* A generate call is in flight for a store whose second label, "Forehead",
\* holds "head" inside it and whose first label holds none of the words.
C25_Witness ==
    /\ genState.isLoading
    /\ InFlight("generate") # {}
    /\ Len(annotations) = 2
    /\ annotations[1].label = <<"T", "o", "r", "s", "o">>
    /\ annotations[2].label = <<"F", "o", "r", "e", "h", "e", "a", "d">>

-----------------------------------------------------------------------------
(* C26 *)

\* The positions of the response parts that carry image data.
Bearing(out) == {k \in 1..Len(out.parts) : BearsImage(out.parts[k])}

\* What generateTexture or editTexture made of the answer is what the claim
\* says: the payload of the first bearing part, as a data URI; without one,
\* a failure with the message of the error thrown for it; on a rejection, a
\* failure with the rejection's message, or the generic one when it is empty;
\* and on a failure no value.
AsClaimed(result, out, noImageMsg, genericMsg) ==
    IF out.kind = "response" /\ Bearing(out) # {}
    THEN /\ result.ok
         /\ \E k \in Bearing(out) :
               /\ \A j \in Bearing(out) : k <= j
               /\ Split1(result.value) = out.parts[k].data
    ELSE /\ ~result.ok
         /\ result.value = NoImage
         /\ result.msg = IF out.kind = "response" THEN noImageMsg
                         ELSE IF out.msg # "" THEN out.msg
                         ELSE genericMsg

\* C26: generateTexture and editTexture return the image payload of the first
\* response part that carries image data; when no part carries any, or the
\* request rejects, they fail with the underlying error's message if it is
\* not empty and with their generic message otherwise, and return no value:
\* whatever the answer to a call in flight.
C26_FirstImageOrError ==
    \A c \in BagToSet(calls) : \A out \in ImageOutcomes :
        /\ c.kind = "generate" =>
              AsClaimed(GenerateTexture(out), out,
                        "No image data received from Gemini.", "Failed to generate texture")
        /\ c.kind = "edit" =>
              AsClaimed(EditTexture(out), out,
                        "No edited image data received.", "Failed to edit texture")

\* An edit was answered without image data: its message is displayed over
\* the result it was asked to change.
C26_Witness ==
    /\ genState.error = "No edited image data received."
    /\ genState.resultImage # NoImage
    /\ ~genState.isLoading

-----------------------------------------------------------------------------
(* C27 *)

\* C27: in every reachable state isLoading implies that a generate or edit
\* call is in flight, and isDetecting holds exactly when a detect call is in
\* flight.
C27_BusyFlagsMatchCalls ==
    /\ genState.isLoading => InFlight("generate") \cup InFlight("edit") # {}
    /\ isDetecting <=> InFlight("detect") # {}

-----------------------------------------------------------------------------
(* C28 *)

\* C28: whenever no placement is pending the label input's text is empty, so
\* that every prompt a surface click opens starts with an empty label.
C28_NoPendingNoLabel ==
    pendingClick = NoPending => tempLabel = <<>>

====
